---- MODULE Spec2Model ----
(***************************************************************************)
(* A model of qst::Wavefunction (src/wavefunction.hpp): the composition of *)
(* an amplitude Rbm and a phase Rbm, its evaluation, sampling, gradient    *)
(* and parameter operations, and the loop of rotatedGrad.                  *)
(*                                                                         *)
(* Numbers.  Real and complex arithmetic is carried exactly on the values  *)
(* that stay representable: a complex number is a pair <<re, im>> of       *)
(* integers, a quotient of two complex numbers is a reduced fraction       *)
(* [re, im, d] or NaN, a probability or a uniform draw is a numerator over *)
(* RngMod, and a phase is counted in units of pi.                          *)
(*                                                                         *)
(* Sites, parameters and matrix entries are numbered from 1 here and from  *)
(* 0 in the source.                                                        *)
(***************************************************************************)
EXTENDS Integers, Sequences, FiniteSets, TLC

VARIABLES
    N,          \* N_      : number of visible units
    npar,       \* npar_   : total number of parameters
    rbmAm,      \* rbmAm_  : [np, pars, visible] of the amplitude Rbm
    rbmPh,      \* rbmPh_  : [np, pars, visible] of the phase Rbm
    rgen,       \* rgen_   : state of the random generator
    twin,       \* a second Wavefunction constructed alike: [rgen, hv]
    lastOp,     \* the member function called last
    arg,        \* its argument(s)
    ret,        \* its return value or output argument
    pc,         \* rotatedGrad: "idle", "loop", "done" or "crashed"
    basis,      \* rotatedGrad argument
    state,      \* rotatedGrad argument
    Unitaries,  \* rotatedGrad argument, the caller's std::map
    t,          \* rotatedGrad local
    basisIndex, \* rotatedGrad local
    i,          \* rotatedGrad local: the index of the enumeration loop
    v,          \* rotatedGrad local
    U,          \* rotatedGrad local
    num,        \* rotatedGrad local
    den,        \* rotatedGrad local
    gradR,      \* rotatedGrad output argument
    hist,       \* the <<v, U>> each finished pass of the enumeration loop built
    wild,       \* what a read outside a matrix yields in this call, "none" before one
    outcome     \* how the call of rotatedGrad ended, "running" before

objVars == <<N, npar, rbmAm, rbmPh, rgen>>
callVars == <<pc, basis, state, Unitaries, t, basisIndex, i, v, U, num, den, gradR, hist, wild, outcome>>
vars == <<N, npar, rbmAm, rbmPh, rgen, twin, lastOp, arg, ret,
          pc, basis, state, Unitaries, t, basisIndex, i, v, U, num, den, gradR, hist, wild, outcome>>

----------------------------------------------------------------------------
(* Bounds of the model and constants of the program. *)

MaxN == 2        \* visible units, where rotatedGrad or the parameters are followed
MaxNAll == 1     \* visible units, where every operation is followed
MaxCells == 4    \* entries of the matrices given to SampleLayer, where it is followed alone
MaxNparEach == 2 \* parameters of one Rbm, where the two counts are free
RngMod == 8      \* states of the generator; draws and probabilities are k / RngMod
BitWidth == 16   \* std::bitset<16>
Seed == 13579    \* rgen_.seed(13579)

Bit == {0, 1}
ParVals == {0, 1}
Labels == {"Z", "X", "Y"}
NaN == "NaN"
Uninit == "uninitialized"

----------------------------------------------------------------------------
(* Arithmetic. *)

RECURSIVE Pow(_, _)
Pow(b, e) == IF e = 0 THEN 1 ELSE b * Pow(b, e - 1)

Abs(x) == IF x < 0 THEN -x ELSE x

RECURSIVE Gcd(_, _)
Gcd(a, b) == IF b = 0 THEN a ELSE Gcd(b, a % b)

CZero == <<0, 0>>
COne == <<1, 0>>
CAdd(a, b) == <<a[1] + b[1], a[2] + b[2]>>
CMul(a, b) == <<a[1] * b[1] - a[2] * b[2], a[1] * b[2] + a[2] * b[1]>>
CReal(x) == <<x, 0>>

\* exp(0.5 * I * phase) for a phase of k * pi: the k-th power of I
ExpHalfI(k) ==
    CASE k % 4 = 0 -> <<1, 0>>
      [] k % 4 = 1 -> <<0, 1>>
      [] k % 4 = 2 -> <<-1, 0>>
      [] OTHER     -> <<0, -1>>

\* a / b for complex a, b: the exact quotient in lowest terms, NaN when b = 0
CDiv(a, b) ==
    IF b = CZero THEN NaN
    ELSE LET d  == b[1] * b[1] + b[2] * b[2]
             re == a[1] * b[1] + a[2] * b[2]
             im == a[2] * b[1] - a[1] * b[2]
             g  == Gcd(Gcd(Abs(re), Abs(im)), d)
         IN  [re |-> re \div g, im |-> im \div g, d |-> d \div g]

\* the real number x as a quotient
Exact(x) == [re |-> x, im |-> 0, d |-> 1]

\* the exact square root of a perfect square
Sqrt(p) == CHOOSE m \in 0..p : m * m = p

\* a positive real exp(k * pi), held by k, and its logarithm in units of pi
ExpPi(k) == [epi |-> k]
Log(x) == x.epi

VecZero(n) == [k \in 1..n |-> CZero]
VecAdd(a, b) == [k \in DOMAIN a |-> CAdd(a[k], b[k])]
VecScale(z, g) == [k \in DOMAIN g |-> CMul(z, CReal(g[k]))]
VecDiv(a, b) == [k \in DOMAIN a |-> CDiv(a[k], b)]

BinVecs(n) == [1..n -> Bit]
BinMats(r, c) == [1..r -> [1..c -> Bit]]

----------------------------------------------------------------------------
(* The Rbm collaborator.  Its code is not part of wavefunction.hpp; these  *)
(* definitions stand for the interface the Wavefunction consumes.  The     *)
(* effective energy is linear in the parameters: parameter k weighs        *)
(* visible unit ((k - 1) mod N) + 1.                                       *)

RbmFeature(k, vis) == vis[((k - 1) % Len(vis)) + 1]

RECURSIVE RbmActivationUpTo(_, _, _)
RbmActivationUpTo(pars, vis, k) ==
    IF k = 0 THEN 0
    ELSE RbmActivationUpTo(pars, vis, k - 1) + pars[k] * RbmFeature(k, vis)

RbmActivation(pars, vis) == RbmActivationUpTo(pars, vis, Len(pars))

\* prob(v) of the amplitude model: a non-negative real, here a perfect square
RbmProbAm(rbm, vis) == RbmActivation(rbm.pars, vis) * RbmActivation(rbm.pars, vis)

\* prob(v) of the phase model: a positive real, here a power of exp(pi)
RbmProbPh(rbm, vis) == ExpPi(RbmActivation(rbm.pars, vis))

RbmVisEnergyGrad(rbm, vis) == [k \in 1..rbm.np |-> RbmFeature(k, vis)]

RbmGetParameters(rbm) == rbm.pars

RbmSetParameters(rbm, vec) == [rbm EXCEPT !.pars = vec]

RbmSetVisibleLayer(rbm, m) == [rbm EXCEPT !.visible = m]

RbmInitRandomPars(rbm, seed, sigma) ==
    [rbm EXCEPT !.pars = [k \in 1..rbm.np |-> (seed + k * sigma) % 2]]

\* a conditional probability on the grid: 0, 1/2 or 1
RbmLogistic(x) == IF x < 0 THEN 0 ELSE IF x = 0 THEN RngMod \div 2 ELSE RngMod

RbmProbHiddenGivenVisible(rbm, m) ==
    [s \in DOMAIN m |-> [j \in 1..1 |-> RbmLogistic(RbmActivation(rbm.pars, m[s]))]]

RbmProbVisibleGivenHidden(rbm, h, n) ==
    [s \in DOMAIN h |-> [j \in 1..n |-> RbmLogistic(rbm.pars[1] * h[s][1])]]

\* the visible layers Sample(steps) may leave: the sweep draws from the Rbm's own generator
RbmSampleResults(rbm, n) == BinMats(Len(rbm.visible), n)

\* the Rbm the constructor Rbm(par) builds
RbmConstruct(np, pars, visible) == [np |-> np, pars |-> pars, visible |-> visible]

----------------------------------------------------------------------------
(* Wavefunction: evaluation and plain gradients. *)

amplitude(vis) == Sqrt(RbmProbAm(rbmAm, vis))

phase(vis) == Log(RbmProbPh(rbmPh, vis))

psi(vis) == CMul(CReal(amplitude(vis)), ExpHalfI(phase(vis)))

LambdaGrad(vis) == RbmVisEnergyGrad(rbmAm, vis)

MuGrad(vis) == RbmVisEnergyGrad(rbmPh, vis)

Grad(vis) == [k \in 1..npar |-> IF k <= rbmAm.np THEN RbmVisEnergyGrad(rbmAm, vis)[k]
                                 ELSE RbmVisEnergyGrad(rbmPh, vis)[k - rbmAm.np]]

GetParameters == [k \in 1..npar |-> IF k <= rbmAm.np THEN RbmGetParameters(rbmAm)[k]
                                    ELSE RbmGetParameters(rbmPh)[k - rbmAm.np]]

----------------------------------------------------------------------------
(* Wavefunction::rotatedGrad. *)

\* the unitary tables a caller passes: one with a 2x2 matrix for every rotation
\* label and one that lacks "Y" (rows and columns 0, 1 held at 1, 2); the
\* matrices are sqrt(2) times the rotation into the X basis and into the Y basis
XMatrix == << <<<<1, 0>>, <<1, 0>>>>, <<<<1, 0>>, <<-1, 0>>>> >>
YMatrix == << <<<<1, 0>>, <<0, -1>>>>, <<<<1, 0>>, <<0, 1>>>> >>
RotationMatrix(label) == IF label = "X" THEN XMatrix ELSE YMatrix
CompleteTables == {[l \in {"X", "Y"} |-> RotationMatrix(l)]}
CallerTables == CompleteTables \cup {[l \in {"X"} |-> RotationMatrix(l)]}

\* the matrix std::map::operator[] inserts for a key it does not hold: 0 x 0
EmptyMatrix == <<>>

\* what a read outside a matrix or outside the bitset may yield
GarbageElements == {CZero, COne}

\* lines 130-135: the rotated sites, in ascending order
RECURSIVE ExtractSites(_, _)
ExtractSites(b, n) ==
    IF n = 0 THEN <<>>
    ELSE IF b[n] # "Z" THEN Append(ExtractSites(b, n - 1), n)
         ELSE ExtractSites(b, n - 1)

\* the shift with its operands exchanged: t << 1
Shl1Exchanged(n) == 2 * n

\* line 138: 1 << t
Shl1(n) == Pow(2, n)

\* the value of counter when the loop of lines 142-147 reaches site j
CounterAt(b, j) == Cardinality({k \in 1..(j - 1) : b[k] # "Z"})

\* line 144: bit[counter]; a position outside the bitset reads ub[counter]
BitAt(idx, counter, ub) ==
    IF counter < BitWidth THEN ((idx % Pow(2, BitWidth)) \div Pow(2, counter)) % 2
    ELSE ub[counter]

\* the bit taken at the site's own position instead of at counter
BuildVBySite(b, s, idx, ub) ==
    [j \in 1..Len(s) |-> IF b[j] # "Z" THEN BitAt(idx, j - 1, ub) ELSE s[j]]

\* lines 139-147: the configuration v of pass idx
BuildV(b, s, idx, ub) ==
    [j \in 1..Len(s) |-> IF b[j] # "Z" THEN BitAt(idx, CounterAt(b, j), ub) ELSE s[j]]

\* the labels line 151 looks up in one pass, in the order of the lookups
LookedUp(b, sites) == [ii \in 1..Len(sites) |-> b[sites[ii]]]

\* whether Unitaries[label](row, col) reads an element the matrix holds
Holds(tab, label) == label \in DOMAIN tab /\ tab[label] # EmptyMatrix

\* row and column exchanged: Unitaries[basis[..]](int(v(..)), int(state(..)))
UnitaryElementTransposed(tab, label, s, w, garbage) ==
    IF Holds(tab, label) THEN tab[label][w + 1][s + 1] ELSE garbage

\* line 151, one factor: Unitaries[basis[..]](int(state(..)), int(v(..)))
UnitaryElement(tab, label, s, w, garbage) ==
    IF Holds(tab, label) THEN tab[label][s + 1][w + 1] ELSE garbage

\* lines 148-152: the product over the rotated sites
RECURSIVE UProduct(_, _, _, _, _, _, _)
UProduct(tab, b, sites, s, w, garbage, ii) ==
    IF ii = 0 THEN COne
    ELSE CMul(UProduct(tab, b, sites, s, w, garbage, ii - 1),
              UnitaryElement(tab, b[sites[ii]], s[sites[ii]], w[sites[ii]], garbage))

\* the table after operator[] was asked for every label of ls
Inserted(tab, ls) ==
    [l \in DOMAIN tab \cup ls |-> IF l \in DOMAIN tab THEN tab[l] ELSE EmptyMatrix]

\* the first looked-up label whose element read is outside its matrix
FirstBad(tab, looked) ==
    looked[CHOOSE ii \in 1..Len(looked) :
              /\ ~Holds(tab, looked[ii])
              /\ \A k \in 1..(ii - 1) : Holds(tab, looked[k])]

IdleCall ==
    /\ pc' = "idle" /\ basis' = <<>> /\ state' = <<>> /\ Unitaries' = <<>>
    /\ t' = 0 /\ basisIndex' = <<>> /\ i' = 0 /\ v' = Uninit /\ U' = COne
    /\ num' = <<>> /\ den' = CZero /\ gradR' = Uninit /\ hist' = <<>>
    /\ wild' = "none" /\ outcome' = "none"

\* lines 119-135: entry and the extraction loop
rotatedGradCall(b, s, tab) ==
    /\ basis' = b /\ state' = s /\ Unitaries' = tab
    /\ t' = Len(ExtractSites(b, N))
    /\ basisIndex' = ExtractSites(b, N)
    /\ U' = COne /\ den' = CZero
    /\ num' = VecZero(npar)
    /\ v' = Uninit
    /\ i' = 0
    /\ gradR' = Uninit
    /\ hist' = <<>>
    /\ wild' = "none"
    /\ pc' = "loop" /\ outcome' = "running"
    /\ lastOp' = "rotatedGrad" /\ arg' = "-" /\ ret' = "-"
    /\ UNCHANGED <<N, npar, rbmAm, rbmPh, rgen, twin>>

\* the passes of the enumeration loop the model follows in one call
EnumCap == Pow(2, MaxN)

\* lines 138-155: one pass of the enumeration loop
rotatedGradPass ==
    /\ pc = "loop"
    /\ i < Shl1(t)
    /\ Len(hist) < EnumCap
    /\ \E ub \in [{c \in 0..(t - 1) : c >= BitWidth} -> Bit] :
         LET w == BuildV(basis, state, i, ub)
             looked == LookedUp(basis, basisIndex)
             bad == {l \in {looked[k] : k \in 1..Len(looked)} : ~Holds(Unitaries, l)}
         IN  /\ v' = w
             /\ \/ \* every element read is inside its matrix
                   /\ bad = {}
                   /\ U' = UProduct(Unitaries, basis, basisIndex, state, w, CZero, t)
                   /\ UNCHANGED <<Unitaries, wild>>
                   /\ pc' = "loop" /\ outcome' = "running"
                \/ \* a read outside a 0 x 0 matrix yields what the memory there
                   \* holds, the same at every such read of the call, and the pass goes on
                   /\ bad # {}
                   /\ \E g \in (IF wild = "none" THEN GarbageElements ELSE {wild}) :
                        /\ U' = UProduct(Unitaries, basis, basisIndex, state, w, g, t)
                        /\ wild' = g
                   /\ Unitaries' = Inserted(Unitaries, bad)
                   /\ pc' = "loop" /\ outcome' = "running"
                \/ \* the first read outside a 0 x 0 matrix ends the process
                   /\ bad # {} /\ wild = "none"
                   /\ U' = COne
                   /\ Unitaries' = Inserted(Unitaries, {FirstBad(Unitaries, looked)})
                   /\ UNCHANGED wild
                   /\ pc' = "crashed" /\ outcome' = "crashed"
             /\ IF pc' = "loop"
                THEN /\ num' = VecAdd(num, VecScale(CMul(U', psi(w)), Grad(w)))
                     /\ den' = CAdd(den, CMul(U', psi(w)))
                     /\ hist' = Append(hist, [v |-> w, U |-> U'])
                     /\ i' = i + 1
                ELSE UNCHANGED <<num, den, hist, i>>
    /\ lastOp' = "rotatedGrad" /\ arg' = "-" /\ ret' = "-"
    /\ UNCHANGED <<N, npar, rbmAm, rbmPh, rgen, twin, basis, state, t, basisIndex, gradR>>

\* line 162: the loop is over, gradR = num / den, and the call returns
rotatedGradReturn ==
    /\ pc = "loop"
    /\ ~(i < Shl1(t))
    /\ gradR' = VecDiv(num, den)
    /\ pc' = "done" /\ outcome' = "returned"
    /\ lastOp' = "rotatedGrad" /\ arg' = "-" /\ ret' = "-"
    /\ UNCHANGED <<N, npar, rbmAm, rbmPh, rgen, twin,
                   basis, state, Unitaries, t, basisIndex, i, v, U, num, den, hist, wild>>

\* a first call, with any arguments
rotatedGradFirst ==
    /\ pc = "idle"
    /\ \E b \in [1..N -> Labels], s \in BinVecs(N), tab \in CallerTables :
         rotatedGradCall(b, s, tab)

\* a first call with a table that holds every label
rotatedGradFirstComplete ==
    /\ pc = "idle"
    /\ \E b \in [1..N -> Labels], s \in BinVecs(N), tab \in CompleteTables :
         rotatedGradCall(b, s, tab)

\* the caller calls again with the same basis and state and with its table as it is now
rotatedGradAgain ==
    /\ pc = "done"
    /\ rotatedGradCall(basis, state, Unitaries)

----------------------------------------------------------------------------
(* Construction. *)

\* rgen_.seed(13579): the state of the generator after seeding
SeedState(seed) == seed % RngMod

\* lines 26-34, given the two Rbm that rbmAm_(par) and rbmPh_(par) built
Constructed(am, ph, n) ==
    /\ rbmAm = am /\ rbmPh = ph
    /\ npar = am.np + ph.np
    /\ N = n
    /\ rgen = SeedState(Seed)

InitCall ==
    /\ pc = "idle" /\ basis = <<>> /\ state = <<>> /\ Unitaries = <<>>
    /\ t = 0 /\ basisIndex = <<>> /\ i = 0 /\ v = Uninit /\ U = COne
    /\ num = <<>> /\ den = CZero /\ gradR = Uninit /\ hist = <<>>
    /\ wild = "none" /\ outcome = "none"
    /\ lastOp = "Wavefunction" /\ arg = "-" /\ ret = "-"
    /\ twin = [rgen |-> SeedState(Seed), hv |-> <<>>]

\* Npar() of the Rbm that Rbm(par) builds for nv visible units
RbmNpar(nv) == nv

\* both Rbm are built from the same par: the same sizes, one chain, any parameters
Init ==
    /\ \E n \in 1..MaxN :
         \E pa \in [1..RbmNpar(n) -> ParVals], pp \in [1..RbmNpar(n) -> ParVals] :
           LET vis == [s \in 1..1 |-> [j \in 1..n |-> 0]]
           IN  Constructed(RbmConstruct(RbmNpar(n), pa, vis),
                           RbmConstruct(RbmNpar(n), pp, vis), n)
    /\ InitCall

NextRG ==
    \/ rotatedGradFirst
    \/ rotatedGradPass
    \/ rotatedGradReturn
    \/ rotatedGradAgain

SpecRG == Init /\ [][NextRG]_vars

----------------------------------------------------------------------------
(* The other member functions.  Each is one call; the record of an earlier *)
(* call of rotatedGrad is dropped when another member function is called.  *)

Callable == pc \in {"idle", "done"}

\* std::mt19937 behind std::uniform_real_distribution<double>(0,1): the next
\* state of the generator, which is also the draw, as a numerator over RngMod
RngNext(g) == (5 * g + 3) % RngMod

\* lines 87-88: the k-th entry the two loops visit, for k counted from 0
EntryRowMajor(k, rows, cols) == <<(k \div cols) + 1, (k % cols) + 1>>

\* the comparison with the draw equal to the probability counted as a success
BernoulliInclusive(draw, p) == IF draw <= p THEN 1 ELSE 0

\* line 89: distribution(rgen_) < probs(s,i), converted to double
Bernoulli(draw, p) == IF draw < p THEN 1 ELSE 0

\* lines 87-91 from the k-th entry on (k counted from 0), the generator being g
\* and the target hv: the generator and the target when the loops end
RECURSIVE SampleLayerFrom(_, _, _, _, _, _)
SampleLayerFrom(g, hv, rows, cols, probs, k) ==
    IF k = rows * cols THEN [rgen |-> g, hv |-> hv]
    ELSE LET e == EntryRowMajor(k, rows, cols)
         IN  SampleLayerFrom(RngNext(g),
                             [hv EXCEPT ![e[1]][e[2]] =
                                 Bernoulli(RngNext(g), probs[e[1]][e[2]])],
                             rows, cols, probs, k + 1)

\* lines 85-92 on a target of rows x cols entries
SampleLayerResult(g, rows, cols, probs) ==
    SampleLayerFrom(g, [s \in 1..rows |-> [c \in 1..cols |-> Uninit]], rows, cols, probs, 0)

\* the probabilities a caller passes: 0 or 1/2
ProbVals == {0, RngMod \div 2}

\* line 85: the targets and probabilities a caller passes, of at most cells entries
SampleLayerArgs(cells) ==
    UNION {{[rows |-> sh[1], cols |-> sh[2], probs |-> pr] :
              pr \in [1..sh[1] -> [1..sh[2] -> ProbVals]]} :
           sh \in {x \in (1..cells) \X (1..cells) : x[1] * x[2] <= cells}}

\* SampleLayer on this Wavefunction
SampleLayerOn(a) ==
    /\ Callable
    /\ LET r == SampleLayerResult(rgen, a.rows, a.cols, a.probs)
       IN  rgen' = r.rgen /\ ret' = r.hv
    /\ lastOp' = "SampleLayer" /\ arg' = a
    /\ IdleCall
    /\ UNCHANGED <<N, npar, rbmAm, rbmPh>>

SampleLayer ==
    \E a \in SampleLayerArgs(N) : SampleLayerOn(a) /\ UNCHANGED twin

\* the same call of SampleLayer on this Wavefunction and on its twin
SampleLayerBoth ==
    \E a \in SampleLayerArgs(MaxCells) :
      /\ SampleLayerOn(a)
      /\ twin' = SampleLayerResult(twin.rgen, a.rows, a.cols, a.probs)

\* forwarded to both models, as InitRandomPars is
SetVisibleLayerBoth(m) ==
    /\ Callable
    /\ rbmAm' = RbmSetVisibleLayer(rbmAm, m)
    /\ rbmPh' = RbmSetVisibleLayer(rbmPh, m)
    /\ lastOp' = "SetVisibleLayer" /\ arg' = m /\ ret' = "-"
    /\ IdleCall
    /\ UNCHANGED <<N, npar, rgen, twin>>

\* lines 51-53
SetVisibleLayer(m) ==
    /\ Callable
    /\ rbmAm' = RbmSetVisibleLayer(rbmAm, m)
    /\ lastOp' = "SetVisibleLayer" /\ arg' = m /\ ret' = "-"
    /\ IdleCall
    /\ UNCHANGED <<N, npar, rbmPh, rgen, twin>>

\* lines 56-59
InitRandomPars(seed, sigma) ==
    /\ Callable
    /\ rbmAm' = RbmInitRandomPars(rbmAm, seed, sigma)
    /\ rbmPh' = RbmInitRandomPars(rbmPh, seed, sigma)
    /\ lastOp' = "InitRandomPars" /\ arg' = <<seed, sigma>> /\ ret' = "-"
    /\ IdleCall
    /\ UNCHANGED <<N, npar, rgen, twin>>

\* lines 94-96
Sample(steps) ==
    /\ Callable
    /\ \E m \in RbmSampleResults(rbmAm, N) : rbmAm' = RbmSetVisibleLayer(rbmAm, m)
    /\ lastOp' = "Sample" /\ arg' = steps /\ ret' = "-"
    /\ IdleCall
    /\ UNCHANGED <<N, npar, rbmPh, rgen, twin>>

\* a member function that only returns a value
Returns(name, a, r) ==
    /\ Callable
    /\ lastOp' = name /\ arg' = a /\ ret' = r
    /\ IdleCall
    /\ UNCHANGED <<N, npar, rbmAm, rbmPh, rgen, twin>>

amplitudeCall == \E vis \in BinVecs(N) : Returns("amplitude", vis, amplitude(vis))
phaseCall == \E vis \in BinVecs(N) : Returns("phase", vis, phase(vis))
psiCall == \E vis \in BinVecs(N) : Returns("psi", vis, psi(vis))
LambdaGradCall == \E vis \in BinVecs(N) : Returns("LambdaGrad", vis, LambdaGrad(vis))
MuGradCall == \E vis \in BinVecs(N) : Returns("MuGrad", vis, MuGrad(vis))
GradCall == \E vis \in BinVecs(N) : Returns("Grad", vis, Grad(vis))
GetParametersCall == Returns("GetParameters", "-", GetParameters)

\* lines 78-80
ProbHiddenGivenVisible ==
    \E m \in BinMats(1, N) :
      Returns("ProbHiddenGivenVisible", m, RbmProbHiddenGivenVisible(rbmAm, m))

\* lines 81-83
ProbVisibleGivenHidden ==
    \E h \in BinMats(1, 1) :
      Returns("ProbVisibleGivenHidden", h, RbmProbVisibleGivenHidden(rbmAm, h, N))

\* lines 177-183: the two vectors of length npar_/2 the loop fills
FirstHalf(pars, half) == [k \in 1..half |-> pars[k]]

\* the second half read from the start of pars: parsPh(i)=pars(i)
SecondHalfFromStart(pars, half) == [k \in 1..half |-> pars[k]]

SecondHalf(pars, half) == [k \in 1..half |-> pars[k + half]]

\* lines 176-186, called as the expression `name`
SetParametersAs(name, pars) ==
    /\ Callable
    /\ rbmAm' = RbmSetParameters(rbmAm, FirstHalf(pars, npar \div 2))
    /\ rbmPh' = RbmSetParameters(rbmPh, SecondHalf(pars, npar \div 2))
    /\ lastOp' = name /\ arg' = pars /\ ret' = "-"
    /\ IdleCall
    /\ UNCHANGED <<N, npar, rgen, twin>>

SetParameters(pars) == SetParametersAs("SetParameters", pars)

\* the parameters read by GetParameters (lines 169-173) and set again
SetGetParameters == SetParametersAs("SetParameters(GetParameters())", GetParameters)

----------------------------------------------------------------------------
(* The estimator as the sum over completions that section 4.4 states. *)

RotatedSites == {j \in 1..N : basis[j] # "Z"}

\* the configurations equal to state at every site labelled Z
Completions == {w \in BinVecs(N) : \A j \in 1..N : basis[j] = "Z" => w[j] = state[j]}

\* every non-Z label of the basis has its 2x2 matrix in the table
CompleteTable == \A j \in RotatedSites : Holds(Unitaries, basis[j])

RECURSIVE RotationAmplitudeUpTo(_, _)
RotationAmplitudeUpTo(w, j) ==
    IF j = 0 THEN COne
    ELSE CMul(RotationAmplitudeUpTo(w, j - 1),
              IF basis[j] = "Z" THEN COne
              ELSE Unitaries[basis[j]][state[j] + 1][w[j] + 1])

RotationAmplitude(w) == RotationAmplitudeUpTo(w, N)

RECURSIVE SumOver(_, _)
SumOver(f, S) ==
    IF S = {} THEN CZero
    ELSE LET x == CHOOSE x \in S : TRUE
         IN  CAdd(f[x], SumOver(f, S \ {x}))

Denominator ==
    SumOver([w \in Completions |-> CMul(RotationAmplitude(w), psi(w))], Completions)

Numerator(k) ==
    SumOver([w \in Completions |->
               CMul(CMul(RotationAmplitude(w), CReal(Grad(w)[k])), psi(w))],
            Completions)

HistV == {hist[k].v : k \in 1..Len(hist)}

\* C1: with a table that holds every non-Z label of the basis, a returned call
\* leaves gradR = (sum over the completions of U * Grad * psi) / (sum over the
\* completions of U * psi), every pass having used the U of its own completion;
\* this holds of a repeated call as of a first one.
C1_RotatedGradIsRatioOfSums ==
    (pc = "done" /\ CompleteTable) =>
        /\ gradR = [k \in 1..npar |-> CDiv(Numerator(k), Denominator)]
        /\ den = Denominator
        /\ \A k \in 1..Len(hist) : hist[k].U = RotationAmplitude(hist[k].v)

C1_Witness ==
    /\ pc = "done" /\ CompleteTable
    /\ t = 2 /\ basis[1] = "Y" /\ basis[2] = "X"
    /\ den # CZero
    /\ \E k \in 1..npar : gradR[k] # Exact(Grad(state)[k])

AllZ == \A j \in 1..N : basis[j] = "Z"

\* C2: when every label is Z the loop runs once, with v = state and U = 1, and
\* for psi(state) # 0 the returned gradR is Grad(state) in every component.
C2_AllZReducesToGrad ==
    (pc = "done" /\ AllZ) =>
        /\ Len(hist) = 1
        /\ hist[1].v = state
        /\ hist[1].U = COne
        /\ psi(state) # CZero => gradR = [k \in 1..npar |-> Exact(Grad(state)[k])]

C2_Witness ==
    /\ pc = "done" /\ AllZ /\ N = 2
    /\ psi(state) \notin {CZero, COne}
    /\ \E k \in 1..npar : Grad(state)[k] # 0
    /\ gradR = [k \in 1..npar |-> Exact(Grad(state)[k])]

\* C3: a returned call with t rotated sites, t within the width of the bitset,
\* made exactly 2^t passes, whose configurations are pairwise distinct and are
\* exactly the completions, bit k of the pass index at the k-th rotated site.
C3_EnumeratesEveryCompletionOnce ==
    (pc = "done" /\ t <= BitWidth) =>
        /\ t = Cardinality(RotatedSites)
        /\ Len(hist) = Pow(2, t)
        /\ \A k, m \in 1..Len(hist) : k # m => hist[k].v # hist[m].v
        /\ HistV = Completions
        /\ \A m \in 1..t :
             /\ basisIndex[m] \in RotatedSites
             /\ \A n \in 1..(m - 1) : basisIndex[n] < basisIndex[m]
             /\ \A k \in 1..Len(hist) :
                  hist[k].v[basisIndex[m]] = ((k - 1) \div Pow(2, m - 1)) % 2

C3_Witness ==
    /\ pc = "done" /\ t = 2 /\ Len(hist) = 4
    /\ Cardinality(HistV) = 4

\* C4: a call whose accumulated denominator is zero does not return normally:
\* it ends in an error the caller can tell from a result.
C4_ZeroDenominatorIsAnError ==
    (pc = "done" /\ den = CZero) => outcome # "returned"

\* C5: a pass that looks up a non-Z label the table does not hold ends the call
\* in a configuration error and leaves the table with the entries it had.
C5_MissingEntryIsAnError ==
    [][(pc = "loop" /\ i < Shl1(t) /\ ~CompleteTable) =>
          (outcome' = "configuration error" /\ Unitaries' = Unitaries)]_vars

----------------------------------------------------------------------------
(* Specifications. *)

Evaluations ==
    \/ amplitudeCall
    \/ phaseCall
    \/ psiCall
    \/ LambdaGradCall
    \/ MuGradCall
    \/ GradCall
    \/ GetParametersCall

Parameters ==
    \/ \E pars \in [1..npar -> ParVals] : SetParameters(pars)
    \/ SetGetParameters
    \/ \E seed \in Bit, sigma \in Bit : InitRandomPars(seed, sigma)

Chains ==
    \/ \E m \in BinMats(1, N) : SetVisibleLayer(m)
    \/ \E steps \in 1..1 : Sample(steps)
    \/ ProbHiddenGivenVisible
    \/ ProbVisibleGivenHidden

\* every operation, on Wavefunctions of at most MaxNAll visible units
InitAll == Init /\ N <= MaxNAll

Next ==
    \/ Evaluations
    \/ Parameters
    \/ Chains
    \/ SampleLayer
    \/ rotatedGradFirstComplete
    \/ rotatedGradPass
    \/ rotatedGradReturn
    \/ rotatedGradAgain

Spec == InitAll /\ [][Next]_vars

\* the parameters and what is evaluated from them
NextPars ==
    \/ Evaluations
    \/ Parameters

SpecPars == Init /\ [][NextPars]_vars

\* SampleLayer on two Wavefunctions constructed alike, their parameters zero
InitSample ==
    /\ Init
    /\ \A k \in 1..RbmNpar(N) : rbmAm.pars[k] = 0 /\ rbmPh.pars[k] = 0

NextSample == SampleLayerBoth

SpecSample == InitSample /\ [][NextSample]_vars

\* rotatedGrad on a Wavefunction of one visible unit more than the bitset has
\* bits, every site carrying the same label and the same value, the parameters
\* of each model all equal
InitCap ==
    /\ LET n == BitWidth + 1
           vis == [s \in 1..1 |-> [j \in 1..n |-> 0]]
       IN  \E x \in ParVals, y \in ParVals :
             Constructed(RbmConstruct(RbmNpar(n), [k \in 1..RbmNpar(n) |-> x], vis),
                         RbmConstruct(RbmNpar(n), [k \in 1..RbmNpar(n) |-> y], vis), n)
    /\ InitCall

rotatedGradFirstUniform ==
    /\ pc = "idle"
    /\ \E l \in Labels, x \in Bit, tab \in CompleteTables :
         rotatedGradCall([j \in 1..N |-> l], [j \in 1..N |-> x], tab)

NextCap ==
    \/ rotatedGradFirstUniform
    \/ rotatedGradPass
    \/ rotatedGradReturn

SpecCap == InitCap /\ [][NextCap]_vars

\* the parameter counts Npar() may return for the two Rbm, each on its own
RbmNparAny == 1..MaxNparEach

\* construction from two Rbm whose parameter counts are free
InitCtor ==
    /\ \E n \in 1..MaxN, na \in RbmNparAny, nq \in RbmNparAny :
         \E pa \in [1..na -> ParVals], pp \in [1..nq -> ParVals] :
           LET vis == [s \in 1..1 |-> [j \in 1..n |-> 0]]
           IN  Constructed(RbmConstruct(na, pa, vis), RbmConstruct(nq, pp, vis), n)
    /\ InitCall

NextCtor ==
    \/ \E pars \in [1..npar -> ParVals] : SetParameters(pars)
    \/ amplitudeCall
    \/ phaseCall
    \/ psiCall

SpecCtor == InitCtor /\ [][NextCtor]_vars

----------------------------------------------------------------------------
(* Claims about the parameters, the sampling and the state. *)

\* C6: a call whose basis rotates more sites than the completion index has bits
\* is refused at its start: it makes no pass of the enumeration loop.
C6_OverCapacityMakesNoPass ==
    (pc # "idle" /\ t > BitWidth) => Len(hist) = 0

C7_SetGetParametersChangesNothing ==
    [][(lastOp' = "SetParameters(GetParameters())"
          \/ (lastOp' = "SetParameters" /\ arg' = GetParameters)) =>
         /\ Len(rbmAm'.pars) = Len(rbmAm.pars)
         /\ Len(rbmPh'.pars) = Len(rbmPh.pars)
         /\ rbmAm'.pars = rbmAm.pars
         /\ rbmPh'.pars = rbmPh.pars
         /\ \A vis \in BinVecs(N) :
              /\ amplitude(vis)' = amplitude(vis)
              /\ phase(vis)' = phase(vis)
              /\ Grad(vis)' = Grad(vis)]_vars

C7_Witness ==
    /\ lastOp = "SetParameters(GetParameters())"
    /\ N = 2
    /\ rbmAm.pars = <<0, 1>> /\ rbmPh.pars = <<1, 0>>
    /\ arg = <<0, 1, 1, 0>>

RECURSIVE RngAdvance(_, _)
RngAdvance(g, k) == IF k = 0 THEN g ELSE RngNext(RngAdvance(g, k - 1))

\* C9: SampleLayer takes one draw in [0,1) per entry of the target, in row-major
\* order, writes 1 where the entry's draw is below the entry's probability and 0
\* elsewhere, so every entry is 0 or 1 and an entry of probability 0 is 0; and a
\* Wavefunction constructed alike that got the same SampleLayer calls has the
\* same output.
C9_SampleLayerIsBernoulliPerEntry ==
    [][lastOp' = "SampleLayer" =>
         LET a == arg'
             drawOf(s, c) == RngAdvance(rgen, (s - 1) * a.cols + c)
         IN  /\ rgen' = RngAdvance(rgen, a.rows * a.cols)
             /\ DOMAIN ret' = 1..a.rows
             /\ \A s \in 1..a.rows :
                  /\ DOMAIN ret'[s] = 1..a.cols
                  /\ \A c \in 1..a.cols :
                       /\ drawOf(s, c) \in 0..(RngMod - 1)
                       /\ ret'[s][c] = (IF drawOf(s, c) < a.probs[s][c] THEN 1 ELSE 0)
                       /\ ret'[s][c] \in {0, 1}
                       /\ a.probs[s][c] = 0 => ret'[s][c] = 0
             /\ twin'.hv = ret']_vars

C9_Witness ==
    /\ lastOp = "SampleLayer"
    /\ arg.rows = 2 /\ arg.cols = 2
    /\ arg.probs = << <<RngMod \div 2, RngMod \div 2>>, <<0, RngMod \div 2>> >>
    /\ ret[1][1] # ret[1][2]
    /\ ret[2][1] = 0
    /\ twin.hv = ret
    /\ rgen = RngAdvance(SeedState(Seed), 4)

EvaluationNames ==
    {"amplitude", "phase", "psi", "LambdaGrad", "MuGrad", "Grad", "GetParameters", "rotatedGrad"}

\* C10: amplitude, phase, psi, LambdaGrad, MuGrad, Grad, GetParameters and
\* rotatedGrad change nothing of the Wavefunction (sizes, both models'
\* parameters and chains, the generator); only SampleLayer moves the generator;
\* only SetParameters and InitRandomPars change the phase model.
C10_EvaluationsChangeNothing ==
    [][/\ lastOp' \in EvaluationNames => UNCHANGED <<N, npar, rbmAm, rbmPh, rgen>>
       /\ rgen' # rgen => lastOp' = "SampleLayer"
       /\ rbmPh' # rbmPh =>
            lastOp' \in {"SetParameters", "SetParameters(GetParameters())", "InitRandomPars"}]_vars

C10_Witness ==
    /\ lastOp = "rotatedGrad" /\ pc = "done" /\ t = 1 /\ CompleteTable
    /\ rgen # SeedState(Seed)
    /\ rbmAm.visible[1][1] = 1
    /\ rbmPh.visible[1][1] = 0
    /\ rbmAm.pars # rbmPh.pars

====
